---- MODULE Spec2Model ----
(***************************************************************************)
(* A model of pop_tools: the tracer-budget reduction of budget.py and the  *)
(* grid construction of grid.py.                                           *)
(*                                                                         *)
(* Numbers.  A cell of a DataArray is either a number or missing (NaN).    *)
(* A number n is the one-element tuple <<n>>, the missing value is <<>>.   *)
(* Floating-point values are modelled by integers: the model follows the   *)
(* array algebra (roll, where, shift, diff, sum, slicing), not rounding.   *)
(*                                                                         *)
(* Arrays.  A 2-D array (nlat, nlon) is a function j -> i -> cell with     *)
(* 0-based indices; a 3-D array (z_t, nlat, nlon) is a function            *)
(* k -> j -> i -> cell.                                                    *)
(***************************************************************************)
EXTENDS Integers, Sequences, FiniteSets, TLC

VARIABLES
    da,          \* SpecDiv: the flux DataArray handed to _compute_horizontal_divergence
    mask,        \* SpecDiv: the boolean mask handed to it
    direction,   \* SpecDiv: the direction argument of the last call ("" before any call)
    div,         \* SpecDiv: what the last call returned
    vdiv,        \* SpecVDiv: what _compute_vertical_divergence(da) returned
    z,           \* SpecKmax: the layer bottom depths (cm) of the grid, layer 0 first
    budget_depth, \* SpecKmax: the requested depth (cm) handed to _compute_kmax
    kmax,        \* SpecKmax: what _compute_kmax returned
    inputdata,   \* SpecBudget: what the files hold: the known grids and the tracer terms
    req,         \* SpecBudget: the arguments of the last regional_tracer_budget call
    reg_budget,  \* SpecBudget: the budget that call returned (None if it raised)
    ladv,        \* SpecLadv: what _compute_lateral_advection returned
    term,        \* SpecTerm: what the budget-term function called returned
    grid_defs,   \* SpecGrid: the module-level registry, grid name -> attribute dict
    INPUTDATA,   \* SpecGrid: the grid files, file name -> contents
    grid_args,   \* SpecGrid: the arguments of the last get_grid call
    dso,         \* SpecGrid: the dataset the caller holds (the last one returned)
    called,      \* the function the last call ran ("" before any call)
    raised       \* the exception the last call raised ("" when it returned)

divVars == <<da, mask, direction, div>>

kmaxVars == <<z, budget_depth, kmax>>

budgetVars == <<inputdata, req, reg_budget, ladv, term>>

gridVars == <<grid_defs, INPUTDATA, grid_args, dso>>

vars == <<divVars, vdiv, kmaxVars, budgetVars, gridVars, called, raised>>

-----------------------------------------------------------------------------
(* Cells: numbers and the missing value *)

NaN == <<>>

Num(n) == <<n>>

IsNaN(x) == x = NaN

\* x - y of two cells: missing if either operand is missing
CellSub(x, y) == IF IsNaN(x) \/ IsNaN(y) THEN NaN ELSE Num(x[1] - y[1])

\* x + y of two cells
CellAdd(x, y) == IF IsNaN(x) \/ IsNaN(y) THEN NaN ELSE Num(x[1] + y[1])

\* x * n of a cell and a number
CellMul(x, n) == IF IsNaN(x) THEN NaN ELSE Num(x[1] * n)

-----------------------------------------------------------------------------
(* 2-D array algebra (xarray semantics) *)

Rows(a) == DOMAIN a

Cols(a) == DOMAIN a[CHOOSE j \in DOMAIN a : TRUE]

NRows(a) == Cardinality(Rows(a))

NCols(a) == Cardinality(Cols(a))

\* a.roll(nlon=s): the element at column i moves to column (i + s) mod nlon
RollLon(a, s) == [j \in Rows(a) |-> [i \in Cols(a) |-> a[j][(i - s) % NCols(a)]]]

\* a.roll(nlat=s): the element at row j moves to row (j + s) mod nlat
RollLat(a, s) == [j \in Rows(a) |-> [i \in Cols(a) |-> a[(j - s) % NRows(a)][i]]]

\* a.where(m): a where m is True, missing elsewhere
Where(a, m) == [j \in Rows(a) |-> [i \in Cols(a) |-> IF m[j][i] THEN a[j][i] ELSE NaN]]

\* a - b, cell by cell
Sub2(a, b) == [j \in Rows(a) |-> [i \in Cols(a) |-> CellSub(a[j][i], b[j][i])]]

\* a + b, cell by cell
Add2(a, b) == [j \in Rows(a) |-> [i \in Cols(a) |-> CellAdd(a[j][i], b[j][i])]]

\* -a, cell by cell
Neg2(a) == [j \in Rows(a) |-> [i \in Cols(a) |-> CellMul(a[j][i], -1)]]

-----------------------------------------------------------------------------
(* 3-D array algebra: the layers of a (z_t, nlat, nlon) array are 0 .. n-1 *)

NLayers(a) == Cardinality(DOMAIN a)

\* The horizontal index sets of a 3-D array (empty for an array of no layer)
Rows3(a) == IF DOMAIN a = {} THEN {} ELSE Rows(a[0])

Cols3(a) == IF DOMAIN a = {} THEN {} ELSE Cols(a[0])

\* xr.concat([cap, a], dim='z_t') of a 2-D cap and a 3-D array
ConcatCap(cap, a) == [k \in 0..NLayers(a) |-> IF k = 0 THEN cap ELSE a[k - 1]]

\* a.diff('z_t'): layer k of the result is a[k+1] - a[k]
DiffZ(a) == [k \in 0..(NLayers(a) - 2) |-> Sub2(a[k + 1], a[k])]

-----------------------------------------------------------------------------
(* budget.py: _compute_horizontal_divergence *)

\* The zonal branch with the operands of the subtraction swapped.
HDivSwapped(a, m, dir) ==
    IF dir = "zonal"
    THEN Sub2(Where(a, m), RollLon(Where(a, RollLon(m, -1)), 1))
    ELSE Sub2(RollLon(Where(a, RollLat(m, -1)), 1), Where(a, m))

\* where() filling the dropped cells with 1 instead of the missing value.
HDivFilled(a, m, dir) ==
    LET Fill(x, c) == [j \in Rows(x) |-> [i \in Cols(x) |->
                          IF c[j][i] THEN x[j][i] ELSE Num(1)]]
    IN  IF dir = "zonal"
        THEN Sub2(RollLon(Fill(a, RollLon(m, -1)), 1), Where(a, m))
        ELSE Sub2(RollLon(Fill(a, RollLat(m, -1)), 1), Where(a, m))

\* The subtraction of the directly masked field left out: the inflow face only.
HDivInflowOnly(a, m, dir) ==
    IF dir = "zonal"
    THEN RollLon(Where(a, RollLon(m, -1)), 1)
    ELSE RollLon(Where(a, RollLat(m, -1)), 1)

\* _compute_horizontal_divergence(da, mask, direction) for the two directions it
\* accepts.  Both branches roll the masked field back along nlon.
_compute_horizontal_divergence(a, m, dir) ==
    IF dir = "zonal"
    THEN LET mask_roll == RollLon(m, -1)
         IN  Sub2(RollLon(Where(a, mask_roll), 1), Where(a, m))
    ELSE LET mask_roll == RollLat(m, -1)
         IN  Sub2(RollLon(Where(a, mask_roll), 1), Where(a, m))

-----------------------------------------------------------------------------
(* SpecDiv: _compute_horizontal_divergence applied to bounded inputs *)

NLat == 3
NLon == 3
MaxMasked == 2

FluxValues == {-1, 2}

Directions == {"zonal", "meridional", "vertical"}

DivRows == 0..(NLat - 1)
DivCols == 0..(NLon - 1)
DivCells == DivRows \X DivCols

\* The boolean masks with at most MaxMasked selected cells (cell (j, i) is numbered
\* j * NLon + i).
DivMasks ==
    {[j \in DivRows |-> [i \in DivCols |-> (j * NLon + i) \in s]] :
        s \in {t \in SUBSET (0..(NLat * NLon - 1)) : Cardinality(t) <= MaxMasked}}

\* The flux fields: the zero field, every field that is zero except at one cell,
\* and the field whose cells all hold different values.
DivFields ==
    {[j \in DivRows |-> [i \in DivCols |-> Num(0)]]}
    \cup {[j \in DivRows |-> [i \in DivCols |-> IF <<j, i>> = c THEN Num(v) ELSE Num(0)]] :
              c \in DivCells, v \in FluxValues}
    \cup {[j \in DivRows |-> [i \in DivCols |-> Num(j * NLon + i + 1)]]}

DivIdle == da = <<>> /\ mask = <<>> /\ direction = "" /\ div = <<>>

VDivIdle == vdiv = <<>>

KmaxIdle == z = <<>> /\ budget_depth = 0 /\ kmax = <<>>

BudgetIdle ==
    inputdata = <<>> /\ req = <<>> /\ reg_budget = <<>> /\ ladv = <<>> /\ term = <<>>

GridIdle == grid_defs = <<>> /\ INPUTDATA = <<>> /\ grid_args = <<>> /\ dso = <<>>

InitDiv ==
    /\ da \in DivFields
    /\ mask \in DivMasks
    /\ direction = ""
    /\ div = <<>>
    /\ raised = ""
    /\ called = ""
    /\ VDivIdle /\ KmaxIdle /\ BudgetIdle /\ GridIdle

\* A call with a direction the function accepts.
ComputeDivergence ==
    \E d \in {"zonal", "meridional"} :
        /\ direction' = d
        /\ div' = _compute_horizontal_divergence(da, mask, d)
        /\ raised' = ""
        /\ called' = "_compute_horizontal_divergence"
        /\ UNCHANGED <<da, mask, vdiv, kmaxVars, budgetVars, gridVars>>

\* A call with any other direction raises ValueError.
ComputeDivergenceInvalid ==
    \E d \in Directions \ {"zonal", "meridional"} :
        /\ direction' = d
        /\ div' = <<>>
        /\ raised' = "ValueError"
        /\ called' = "_compute_horizontal_divergence"
        /\ UNCHANGED <<da, mask, vdiv, kmaxVars, budgetVars, gridVars>>

NextDiv == ComputeDivergence \/ ComputeDivergenceInvalid

SpecDiv == InitDiv /\ [][NextDiv]_vars

\* C1: for direction 'meridional' the result at every masked cell (j, i) is the flux
\* at the neighbouring row (j-1, i) minus the flux at (j, i): the masked field is
\* shifted back along nlat, never along nlon.  (Stated for the rows j >= 1, which
\* have a neighbouring row without any wraparound.)
C1_MeridionalAlongNlat ==
    direction = "meridional" =>
        \A j \in DivRows \ {0}, i \in DivCols :
            mask[j][i] => div[j][i] = CellSub(da[j - 1][i], da[j][i])

\* C2: for direction 'zonal' the result at every masked cell is the flux one column
\* west (column nlon-1 for column 0) minus the flux at the cell, whatever the mask
\* holds at the western neighbour, and the result is missing at every other cell.
C2_ZonalWestMinusHere ==
    direction = "zonal" =>
        \A j \in DivRows, i \in DivCols :
            div[j][i] = IF mask[j][i]
                        THEN CellSub(da[j][(i - 1) % NLon], da[j][i])
                        ELSE NaN

\* C2's case: a zonal call with a masked cell in column 0 whose western neighbour
\* (column nlon-1) is outside the mask and holds a different flux.
C2_Witness ==
    /\ direction = "zonal"
    /\ \E j \in DivRows :
          /\ mask[j][0] /\ ~mask[j][NLon - 1]
          /\ da[j][NLon - 1] # da[j][0]
          /\ div[j][0] = CellSub(da[j][NLon - 1], da[j][0])

\* C6: for both directions the divergence of the negated flux field is the negation
\* of the divergence of the field, cell by cell, missing cells included.
C6_Antisymmetric ==
    direction \in {"zonal", "meridional"} =>
        _compute_horizontal_divergence(Neg2(da), mask, direction) = Neg2(div)

\* C6's case: a meridional call whose result holds a non-zero number at one cell and
\* a missing value at a masked cell.
C6_Witness ==
    /\ direction = "meridional"
    /\ \E j \in DivRows, i \in DivCols :
          ~IsNaN(div[j][i]) /\ div[j][i] # Num(0)
    /\ \E j \in DivRows, i \in DivCols : mask[j][i] /\ IsNaN(div[j][i])

-----------------------------------------------------------------------------
(* budget.py: _compute_vertical_divergence *)

\* The cap of zeros concatenated below the deepest layer instead of above layer 0.
VDivCapBelow(a) ==
    LET zero_cap == [j \in Rows3(a) |-> [i \in Cols3(a) |-> Num(0)]]
    IN  DiffZ([k \in 0..NLayers(a) |-> IF k = NLayers(a) THEN zero_cap ELSE a[k]])

\* _compute_vertical_divergence(da)
_compute_vertical_divergence(a) ==
    LET zero_cap == [j \in Rows3(a) |-> [i \in Cols3(a) |-> Num(0)]]
        vdiv0 == ConcatCap(zero_cap, a)
    IN  DiffZ(vdiv0)

-----------------------------------------------------------------------------
(* SpecVDiv: _compute_vertical_divergence applied to bounded inputs *)

MaxLayers == 3

\* What one cell of a masked flux field can hold.
ColumnValues == {NaN, Num(0), Num(-1), Num(2)}

\* The 3-D field of n layers that is zero outside column c, which holds prof
ColumnField(n, c, prof) ==
    [k \in 0..(n - 1) |-> [j \in DivRows |-> [i \in DivCols |->
        IF <<j, i>> = c THEN prof[k] ELSE Num(0)]]]

\* The 3-D field of n layers whose cells all differ
RampField(n) ==
    [k \in 0..(n - 1) |-> [j \in DivRows |-> [i \in DivCols |->
        Num((k + 1) * (k + 1) * (j * NLon + i + 1))]]]

\* da is a field of 1 .. MaxLayers layers: zero outside one column, which holds any
\* profile of ColumnValues, or the field whose cells all differ.
InitVDiv ==
    /\ \E n \in 1..MaxLayers :
          \/ \E c \in DivCells, prof \in [0..(n - 1) -> ColumnValues] :
                da = ColumnField(n, c, prof)
          \/ da = RampField(n)
    /\ mask = <<>> /\ direction = "" /\ div = <<>>
    /\ vdiv = <<>>
    /\ raised = ""
    /\ called = ""
    /\ KmaxIdle /\ BudgetIdle /\ GridIdle

ComputeVerticalDivergence ==
    /\ vdiv' = _compute_vertical_divergence(da)
    /\ raised' = ""
    /\ called' = "_compute_vertical_divergence"
    /\ UNCHANGED <<divVars, kmaxVars, budgetVars, gridVars>>

NextVDiv == ComputeVerticalDivergence

SpecVDiv == InitVDiv /\ [][NextVDiv]_vars

\* C7: the result has exactly the layers of the input; layer 0 is the input at
\* layer 0 (its difference against the zero cap) and layer k > 0 is the input at
\* layer k minus the input at layer k-1; a uniformly zero input gives zero at every
\* cell and layer.
C7_VerticalDivergence ==
    vdiv # <<>> =>
        /\ DOMAIN vdiv = DOMAIN da
        /\ vdiv[0] = da[0]
        /\ \A k \in DOMAIN da \ {0} : vdiv[k] = Sub2(da[k], da[k - 1])
        /\ (\A k \in DOMAIN da, j \in DivRows, i \in DivCols : da[k][j][i] = Num(0))
              => (\A k \in DOMAIN vdiv, j \in DivRows, i \in DivCols :
                     vdiv[k][j][i] = Num(0))

\* C7's case: a result of MaxLayers layers with a non-zero difference below layer 0.
C7_Witness ==
    /\ vdiv # <<>>
    /\ NLayers(da) = MaxLayers
    /\ \E k \in DOMAIN vdiv \ {0}, j \in DivRows, i \in DivCols :
          /\ ~IsNaN(vdiv[k][j][i]) /\ vdiv[k][j][i] # Num(0)
          /\ vdiv[k][j][i] # da[k][j][i]

-----------------------------------------------------------------------------
(* grid.py: the vertical grid of get_grid *)

\* np.cumsum(dz)[k]: the sum of dz[0..k]
RECURSIVE CumSum(_, _)
CumSum(dz, k) == IF k = 0 THEN dz[0] ELSE CumSum(dz, k - 1) + dz[k]

\* A plausible slip: the leading 0.0 replaced by the first thickness.
DepthEdgesFromFirst(dz) ==
    [e \in 0..Cardinality(DOMAIN dz) |-> IF e = 0 THEN dz[0] ELSE CumSum(dz, e - 1)]

\* depth_edges = np.concatenate(([0.0], np.cumsum(dz)))
depth_edges(dz) ==
    [e \in 0..Cardinality(DOMAIN dz) |-> IF e = 0 THEN 0 ELSE CumSum(dz, e - 1)]

\* z_w = depth_edges[0:-1]
z_w(dz) == [k \in DOMAIN dz |-> depth_edges(dz)[k]]

\* z_w_bot = depth_edges[1:]
z_w_bot(dz) == [k \in DOMAIN dz |-> depth_edges(dz)[k + 1]]

-----------------------------------------------------------------------------
(* budget.py: _compute_kmax *)

\* Python's None
None == <<>>

\* b.argmin() of a boolean array: the first index holding False, 0 if all are True
ArgMin(b) ==
    IF \E k \in DOMAIN b : ~b[k]
    THEN CHOOSE k \in DOMAIN b : ~b[k] /\ \A l \in DOMAIN b : ~b[l] => k <= l
    ELSE 0

\* The comparison written z < budget_depth instead of z <= budget_depth.
KmaxStrict(depth, zb) ==
    LET k == ArgMin([l \in DOMAIN zb |-> zb[l] < depth]) - 1
    IN  IF k = -1 THEN None ELSE Num(k)

\* The result -1 returned as it is, not turned into None.
KmaxNoNone(depth, zb) ==
    Num(ArgMin([l \in DOMAIN zb |-> zb[l] <= depth]) - 1)

\* _compute_kmax(budget_depth, z): None, or the index as Num(k)
_compute_kmax(depth, zb) ==
    LET k == ArgMin([l \in DOMAIN zb |-> zb[l] <= depth]) - 1
    IN  IF k = -1 THEN None ELSE Num(k)

-----------------------------------------------------------------------------
(* SpecKmax: _compute_kmax applied to bounded grids and depths *)

\* Layer thicknesses (cm).
DzValues == {1, 2}

\* The thickness profiles of 1 .. MaxLayers layers.
DzProfiles == UNION {[0..(n - 1) -> DzValues] : n \in 1..MaxLayers}

InitKmax ==
    /\ \E dz \in DzProfiles :
          /\ z = z_w_bot(dz)
          /\ budget_depth \in 0..(z_w_bot(dz)[Cardinality(DOMAIN dz) - 1] + 1)
    /\ kmax = <<>>
    /\ called = ""
    /\ raised = ""
    /\ DivIdle /\ VDivIdle /\ BudgetIdle /\ GridIdle

ComputeKmax ==
    /\ kmax' = _compute_kmax(budget_depth, z)
    /\ called' = "_compute_kmax"
    /\ raised' = ""
    /\ UNCHANGED <<divVars, vdiv, z, budget_depth, budgetVars, gridVars>>

NextKmax == ComputeKmax

SpecKmax == InitKmax /\ [][NextKmax]_vars

Deepest(zb) == Cardinality(DOMAIN zb) - 1

\* C3 as stated: a requested depth equal to the bottom depth of layer k gives
\* kmax = k, for every layer k, the deepest included.
C3_KmaxAtLayerBottom ==
    called = "_compute_kmax" =>
        \A k \in DOMAIN z : budget_depth = z[k] => kmax = Num(k)

\* C3 amended: a requested depth equal to the bottom depth of layer k gives
\* kmax = k for every layer above the deepest one (the shallowest included), and
\* gives None (full depth) when k is the deepest layer.
C3_KmaxAtLayerBottomAmended ==
    called = "_compute_kmax" =>
        \A k \in DOMAIN z :
            budget_depth = z[k] =>
                kmax = IF k < Deepest(z) THEN Num(k) ELSE None

\* C3's case: on a grid of MaxLayers layers the depth requested is the bottom depth
\* of a layer between the shallowest and the deepest, and kmax is that layer.
C3_Witness ==
    /\ called = "_compute_kmax"
    /\ Deepest(z) = MaxLayers - 1
    /\ \E k \in DOMAIN z : 0 < k /\ k < Deepest(z) /\ budget_depth = z[k] /\ kmax = Num(k)

-----------------------------------------------------------------------------
(* budget.py: helpers of the budget terms *)

Min(a, b) == IF a <= b THEN a ELSE b

\* The sum of the numbers among f[x], x in S, the missing values skipped
\* (xarray's sum with skipna: the sum of no number is 0).
RECURSIVE SumSkipNa(_, _)
SumSkipNa(f, S) ==
    IF S = {} THEN 0
    ELSE LET x == CHOOSE y \in S : TRUE
             v == f[x]
         IN  (IF IsNaN(v) THEN 0 ELSE v[1]) + SumSkipNa(f, S \ {x})

\* a.isel(z_t=slice(0, m)) for m >= 0
ISelZ(a, m) == [k \in 0..(Min(m, NLayers(a)) - 1) |-> a[k]]

\* a.isel(z_t=slice(0, -1))
DropLastZ(a) == [k \in 0..(NLayers(a) - 2) |-> a[k]]

\* a.sum('z_t') of a 3-D array whose horizontal shape is that of the 2-D array t
SumZ(a, t) ==
    [j \in Rows(t) |-> [i \in Cols(t) |->
        Num(SumSkipNa([k \in DOMAIN a |-> a[k][j][i]], DOMAIN a))]]

\* a.sum(['nlat', 'nlon']) of a 2-D array
SumArea(a) ==
    Num(SumSkipNa([c \in Rows(a) \X Cols(a) |-> a[c[1]][c[2]]], Rows(a) \X Cols(a)))

\* a.where(m) of a 3-D array and a 2-D mask
Where3(a, m) == [k \in DOMAIN a |-> Where(a[k], m)]

\* a + b and a - b of two 3-D arrays with the same layers
Add3(a, b) == [k \in DOMAIN a |-> Add2(a[k], b[k])]

Sub3(a, b) == [k \in DOMAIN a |-> Sub2(a[k], b[k])]

\* a.shift(z_t=-1): layer k holds a[k+1], the deepest layer is missing
ShiftUpZ(a) ==
    [k \in DOMAIN a |-> [j \in Rows3(a) |-> [i \in Cols3(a) |->
        IF k + 1 \in DOMAIN a THEN a[k + 1][j][i] ELSE NaN]]]

\* a.fillna(0)
FillNa0(a) ==
    [k \in DOMAIN a |-> [j \in Rows3(a) |-> [i \in Cols3(a) |->
        IF IsNaN(a[k][j][i]) THEN Num(0) ELSE a[k][j][i]]]]

\* NMOLS_TO_MOLYR = 1e-9 * 86400 * 365 = 0.031536, in units of 1e-6: budget terms
\* in mol/yr are held as integers counting 1e-6 mol/yr.
NMOLS_TO_MOLYR == 31536

\* _convert_units on a 2-D array: ds *= NMOLS_TO_MOLYR
_convert_units(a) ==
    [j \in Rows(a) |-> [i \in Cols(a) |-> CellMul(a[j][i], NMOLS_TO_MOLYR)]]

\* _convert_to_tendency(ds, normalizer, sign, kmax) for a 3-D field and a normalizer
\* with dimension z_t (grid.vol): the normalizer is cut to kmax + 1 layers.
_convert_to_tendency(a, normalizer, sign, km) ==
    LET nrm == IF km # None THEN ISelZ(normalizer, km[1] + 1) ELSE normalizer
    IN  [k \in DOMAIN a |-> [j \in Rows3(a) |-> [i \in Cols3(a) |->
            CellMul(CellMul(a[k][j][i], nrm[k][j][i]), sign)]]]

\* _convert_to_tendency for a 3-D field and a normalizer without dimension z_t
\* (grid.area): kmax does not touch the normalizer.
_convert_to_tendency_area3(a, normalizer, sign) ==
    [k \in DOMAIN a |-> [j \in Rows3(a) |-> [i \in Cols3(a) |->
        CellMul(CellMul(a[k][j][i], normalizer[j][i]), sign)]]]

\* _convert_to_tendency for a 2-D field and grid.area
_convert_to_tendency_area2(a, normalizer, sign) ==
    [j \in Rows(a) |-> [i \in Cols(a) |->
        CellMul(CellMul(a[j][i], normalizer[j][i]), sign)]]

\* _compute_horizontal_divergence on a 3-D field: the 2-D mask is broadcast over z_t
HDiv3(a, m, dir) == [k \in DOMAIN a |-> _compute_horizontal_divergence(a[k], m, dir)]

-----------------------------------------------------------------------------
(* budget.py: the budget terms.  ds is the dataset _load_tracer_terms returns, a   *)
(* record of 3-D fields (z_t, nlat, nlon); grid is what _process_grid returns.     *)

\* ds.isel(z_t=slice(0, kmax + 1)) when kmax is set
Truncate(a, km) == IF km # None THEN ISelZ(a, km[1] + 1) ELSE a

\* _compute_lateral_advection
_compute_lateral_advection(ds, grid, m, km) ==
    LET UE == _convert_to_tendency(Truncate(ds.UE, km), grid.vol, 1, km)
        VN == _convert_to_tendency(Truncate(ds.VN, km), grid.vol, 1, km)
        ladv_zonal == HDiv3(UE, m, "zonal")
        ladv_merid == HDiv3(VN, m, "meridional")
    IN  _convert_units(SumZ(Add3(ladv_zonal, ladv_merid), m))

\* _compute_lateral_mixing
_compute_lateral_mixing(ds, grid, m, km) ==
    LET HDIFN == _convert_to_tendency(Truncate(ds.HDIFN, km), grid.vol, -1, km)
        HDIFE == _convert_to_tendency(Truncate(ds.HDIFE, km), grid.vol, -1, km)
        HDIFB == _convert_to_tendency(Truncate(ds.HDIFB, km), grid.vol, -1, km)
        lmix_zonal == HDiv3(HDIFE, m, "zonal")
        lmix_merid == HDiv3(HDIFN, m, "meridional")
        lmix_B == _compute_vertical_divergence(Where3(HDIFB, m))
    IN  _convert_units(SumZ(Add3(Add3(lmix_merid, lmix_zonal), lmix_B), m))

\* _compute_vertical_advection
_compute_vertical_advection(ds, grid, m, km) ==
    LET loaded == IF km # None THEN ISelZ(ds.WT, km[1] + 2) ELSE ds.WT
        WT == _convert_to_tendency(Where3(loaded, m), grid.vol, 1,
                                   IF km # None THEN Num(km[1] + 1) ELSE None)
        vadv == DropLastZ(Sub3(FillNa0(ShiftUpZ(WT)), WT))
    IN  _convert_units(SumZ(vadv, m))

\* _compute_vertical_mixing
_compute_vertical_mixing(ds, grid, m, km) ==
    LET DIA_IMPVF == _convert_to_tendency_area3(
                         Where3(Truncate(ds.DIA_IMPVF, km), m), grid.area, -1)
        KPP_SRC == _convert_to_tendency(Where3(Truncate(ds.KPP_SRC, km), m),
                                        grid.vol, 1, km)
        diadiff == _compute_vertical_divergence(DIA_IMPVF)
    IN  _convert_units(SumZ(Add3(KPP_SRC, diadiff), m))

-----------------------------------------------------------------------------
(* Time: seconds since the start of year 0 of the 365-day calendar of POP output *)

SecondsPerYear == 365 * 86400

\* time.year
YearOf(t) == t \div SecondsPerYear

\* A plausible slip: the time axis left as stamped.
ProcessCoordsNoOffset(time) == [n \in DOMAIN time |-> time[n]]

\* _process_coords: ds.time - datetime.timedelta(seconds=1)
_process_coords(time) == [n \in DOMAIN time |-> time[n] - 1]

\* The mean of the numbers among f[x], x in S, the missing values skipped:
\* missing when there is none.  The values are multiples of NMOLS_TO_MOLYR, so the
\* division is exact for every count that divides it (1, 2, 3, 4, 6, 12, ...).
MeanSkipNa(f, S) ==
    LET present == {x \in S : ~IsNaN(f[x])}
    IN  IF present = {} THEN NaN
        ELSE Num(SumSkipNa(f, present) \div Cardinality(present))

\* series.groupby('time.year').mean('time').rename({'year': 'time'}) of a time
\* series of 2-D arrays: one 2-D array per calendar year of the time axis
GroupByYearMean(series, time, t) ==
    [y \in {YearOf(time[n]) : n \in DOMAIN time} |->
        [j \in Rows(t) |-> [i \in Cols(t) |->
            MeanSkipNa([n \in DOMAIN time |-> series[n][j][i]],
                       {n \in DOMAIN time : YearOf(time[n]) = y})]]]

\* _compute_SMS: ds.SMS is a time series of 3-D fields, ds.time its time axis as
\* _load_tracer_terms delivers it (already through _process_coords)
_compute_SMS(ds, grid, m, km) ==
    LET sms == [n \in DOMAIN ds.time |->
                   _convert_units(SumZ(
                       _convert_to_tendency(Where3(Truncate(ds.SMS[n], km), m),
                                            grid.vol, 1, km), m))]
    IN  GroupByYearMean(sms, ds.time, m)

\* _compute_surface_fluxes: the pair (vf, stf)
_compute_surface_fluxes(ds, grid, m) ==
    LET Term(series) ==
            GroupByYearMean(
                [n \in DOMAIN ds.time |->
                    _convert_units(_convert_to_tendency_area2(
                        Where(series[n], m), grid.area, 1))],
                ds.time, m)
        FvICE == Term(ds.FvICE)
        FvPER == Term(ds.FvPER)
        STF == Term(ds.STF)
    IN  [vf |-> [y \in DOMAIN FvICE |-> Add2(FvICE[y], FvPER[y])], stf |-> STF]

-----------------------------------------------------------------------------
(* budget.py: _process_grid and regional_tracer_budget *)

\* area * dz: the cell volumes, as a 3-D array of plain numbers
Volume(area, dz) == [k \in DOMAIN dz |-> [j \in Rows(area) |-> [i \in Cols(area) |->
                        area[j][i] * dz[k]]]]

\* _process_grid applied to the dataset get_grid returned
_process_grid(grid_f) ==
    [area |-> grid_f.TAREA,
     vol  |-> Volume(grid_f.TAREA, grid_f.dz),
     z    |-> grid_f.z_w_bot,
     mask |-> grid_f.REGION_MASK]

\* mask == mask_int, cell by cell: no cell of a mask of integers equals None
MaskEq(m, n) == [j \in Rows(m) |-> [i \in Cols(m) |-> n # None /\ m[j][i] = n[1]]]

\* The test of line 310 made only when the mask defaults to REGION_MASK.
MaskIntMissingDefaultOnly(r) == r.mask = None /\ r.mask_int = None

\* Line 310: if mask_int is None
MaskIntMissing(r) == r.mask_int = None

\* The budget once the mask and kmax are known (lines 323-337)
BudgetTerms(ds, grid, m, km, sum_area) ==
    LET sf == _compute_surface_fluxes(ds, grid, m)
        sms == _compute_SMS(ds, grid, m, km)
        S(a) == IF sum_area THEN SumArea(a) ELSE a
        ST(a) == [y \in DOMAIN a |-> S(a[y])]
    IN  [ladv |-> S(_compute_lateral_advection(ds, grid, m, km)),
         vadv |-> S(_compute_vertical_advection(ds, grid, m, km)),
         lmix |-> S(_compute_lateral_mixing(ds, grid, m, km)),
         vmix |-> S(_compute_vertical_mixing(ds, grid, m, km)),
         sms  |-> ST(sms),
         vf   |-> ST(sf.vf),
         stf  |-> ST(sf.stf),
         mask |-> m,
         units |-> "mol/yr"]

\* regional_tracer_budget(basepath, filebase, tracer, grid, mask, mask_int,
\* budget_depth, sum_area): inp holds what the files give (the grids get_grid knows
\* and the tracer terms), r the arguments.  The result is the exception raised, or
\* "" and the budget.
regional_tracer_budget(inp, r) ==
    IF r.grid \notin DOMAIN inp.grids
    THEN [raised |-> "ValueError: Unknown grid", value |-> None]
    ELSE LET grid == _process_grid(inp.grids[r.grid])
             mask0 == IF r.mask = None THEN grid.mask ELSE r.mask
         IN  IF MaskIntMissing(r)
             THEN [raised |-> "ValueError: Please supply an integer for your mask",
                   value |-> None]
             ELSE LET m == MaskEq(mask0, r.mask_int)
                      km == IF r.budget_depth # None
                            THEN _compute_kmax(r.budget_depth[1] * 100, grid.z)
                            ELSE None
                  IN  [raised |-> "",
                       value |-> BudgetTerms(inp.ds, grid, m, km, r.sum_area)]

-----------------------------------------------------------------------------
(* SpecBudget: regional_tracer_budget applied to bounded files and arguments *)

\* The raw field of term t: small numbers that differ from cell to cell, layer to
\* layer and term to term.
RawField2(t) ==
    [j \in DivRows |-> [i \in DivCols |-> Num(((t * 7 + j * 3 + i * 2) % 5) - 2)]]

RawField3(t, n) == [k \in 0..(n - 1) |-> RawField2(t + 5 * k)]

\* The instant that ends month mth (1..12) of year y, in seconds
MonthEnd(y, mth) ==
    LET cum == <<31, 59, 90, 120, 151, 181, 212, 243, 273, 304, 334, 365>>
    IN  (y * 365 + cum[mth]) * 86400

\* The time axis of the monthly files of SpecBudget: November and December of year 1
\* and January of year 2, each stamped at the end of its month.
BudgetTime == <<MonthEnd(1, 11), MonthEnd(1, 12), MonthEnd(2, 1)>>

\* The dataset get_grid gives for a thickness profile dz (cm)
BudgetGrid(dz) ==
    [TAREA       |-> [j \in DivRows |-> [i \in DivCols |-> 1 + ((j + 2 * i) % 3)]],
     dz          |-> dz,
     z_w_bot     |-> z_w_bot(dz),
     REGION_MASK |-> [j \in DivRows |-> [i \in DivCols |-> 1 + ((i + j) % 2)]]]

\* What _load_tracer_terms reads for a grid of n layers
BudgetTerms0(n) ==
    [UE        |-> RawField3(1, n),
     VN        |-> RawField3(2, n),
     WT        |-> RawField3(3, n),
     HDIFE     |-> RawField3(4, n),
     HDIFN     |-> RawField3(5, n),
     HDIFB     |-> RawField3(6, n),
     DIA_IMPVF |-> RawField3(7, n),
     KPP_SRC   |-> RawField3(8, n),
     SMS       |-> [t \in DOMAIN BudgetTime |-> RawField3(9 + t, n)],
     FvICE     |-> [t \in DOMAIN BudgetTime |-> RawField2(13 + t)],
     FvPER     |-> [t \in DOMAIN BudgetTime |-> RawField2(17 + 2 * t)],
     STF       |-> [t \in DOMAIN BudgetTime |-> RawField2(23 + 3 * t)],
     time      |-> _process_coords(BudgetTime)]

\* The thickness profiles whose layers do not get thinner with depth
BudgetProfiles ==
    {p \in DzProfiles : \A k \in DOMAIN p \ {0} : p[k - 1] <= p[k]}

\* The files: one known grid, whose layers are 100 cm times a profile of
\* BudgetProfiles, and the tracer terms on it.
BudgetInputs ==
    {[grids |-> ("POP_gx3v7" :> BudgetGrid([k \in DOMAIN p |-> 100 * p[k]])),
      ds    |-> BudgetTerms0(Cardinality(DOMAIN p))] :
        p \in BudgetProfiles}

\* A mask of integers supplied by the caller: a block labelled 2
UserMask == [j \in DivRows |-> [i \in DivCols |-> IF j <= 1 /\ i <= 1 THEN 2 ELSE 0]]

\* Budget depths (m) from 0 to beyond the deepest bottom of any profile
BudgetDepths == 0..(2 * MaxLayers + 1)

Requests ==
    [grid : {"POP_gx3v7", "POP_gx0v0"},
     mask : {None, UserMask},
     mask_int : {None, Num(1), Num(2)},
     budget_depth : {None} \cup {Num(d) : d \in BudgetDepths},
     sum_area : BOOLEAN]

InitBudget ==
    /\ inputdata \in BudgetInputs
    /\ req = <<>>
    /\ reg_budget = <<>>
    /\ ladv = <<>>
    /\ term = <<>>
    /\ called = ""
    /\ raised = ""
    /\ DivIdle /\ VDivIdle /\ KmaxIdle /\ GridIdle

RegionalTracerBudget ==
    /\ called = ""
    /\ \E r \in Requests :
          LET res == regional_tracer_budget(inputdata, r)
          IN  /\ req' = r
              /\ reg_budget' = res.value
              /\ raised' = res.raised
    /\ called' = "regional_tracer_budget"
    /\ UNCHANGED <<divVars, vdiv, kmaxVars, inputdata, ladv, term, gridVars>>

NextBudget == RegionalTracerBudget

SpecBudget == InitBudget /\ [][NextBudget]_vars

\* The deepest layer bottom (cm) of the grid a request names
DeepestBottom(inp, r) ==
    LET zb == inp.grids[r.grid].z_w_bot IN zb[Deepest(zb)]

\* C4: a budget depth beyond the deepest layer bottom gives the budget that the
\* same call without a budget depth gives, term by term and cell by cell.
C4_DepthBeyondBottomIsFullDepth ==
    (/\ called = "regional_tracer_budget"
     /\ req.grid \in DOMAIN inputdata.grids
     /\ req.budget_depth # None
     /\ req.budget_depth[1] * 100 > DeepestBottom(inputdata, req))
    => LET full == regional_tracer_budget(inputdata, [req EXCEPT !.budget_depth = None])
       IN  reg_budget = full.value /\ raised = full.raised

\* C4's case: a call that returned a budget for a depth beyond the deepest bottom of
\* a grid of MaxLayers layers, not summed over the area, whose lateral advection is
\* not zero everywhere.
C4_Witness ==
    /\ called = "regional_tracer_budget" /\ raised = ""
    /\ req.budget_depth # None
    /\ req.budget_depth[1] * 100 > DeepestBottom(inputdata, req)
    /\ Deepest(inputdata.grids[req.grid].z_w_bot) = MaxLayers - 1
    /\ ~req.sum_area
    /\ \E j \in DivRows, i \in DivCols : reg_budget.ladv[j][i] # Num(0)

KnownGrid == called = "regional_tracer_budget" /\ req.grid \in DOMAIN inputdata.grids

MissingMaskIntError == "ValueError: Please supply an integer for your mask"

\* C8 as stated: the call fails with the missing-mask-integer error if and only if
\* no mask is supplied (the mask defaults to the region classification) and no
\* mask_int is supplied; a call with a mask of the caller's and no mask_int is not
\* rejected with this error.  (Stated for the grids get_grid knows.)
C8_MissingMaskIntOnlyForDefaultMask ==
    KnownGrid =>
        (raised = MissingMaskIntError <=> (req.mask = None /\ req.mask_int = None))

\* C8 amended: for a known grid the call fails with the missing-mask-integer error
\* if and only if no mask_int is supplied, whether the mask is the default one or
\* the caller's.
C8_MissingMaskIntWheneverNoMaskInt ==
    KnownGrid => (raised = MissingMaskIntError <=> req.mask_int = None)

\* C8's case: a call with a mask of the caller's and no mask_int, rejected with the
\* missing-mask-integer error.
C8_Witness ==
    /\ KnownGrid
    /\ req.mask # None /\ req.mask_int = None
    /\ raised = MissingMaskIntError /\ reg_budget = None

-----------------------------------------------------------------------------
(* SpecLadv: _compute_lateral_advection on the synthetic grid of uniform cells with *)
(* uniform advective fluxes and a square block as mask                             *)

BlockNLat == 4
BlockNLon == 4
BlockNz == 3
BlockSize == 2

BlockRows == 0..(BlockNLat - 1)
BlockCols == 0..(BlockNLon - 1)

\* Layer thickness (cm), cell area and flux value of a scenario
EqualThickness == {10, 25}
UniformArea == {1, 3}
UniformFlux == {-2, 1, 3}

Uniform2(v) == [j \in BlockRows |-> [i \in BlockCols |-> v]]

Uniform3(v) == [k \in 0..(BlockNz - 1) |-> Uniform2(v)]

\* The dataset get_grid gives for the synthetic grid: BlockNz layers of thickness
\* dz, cells of area a, one region
BlockGrid(dz, a) ==
    [TAREA       |-> Uniform2(a),
     dz          |-> [k \in 0..(BlockNz - 1) |-> dz],
     z_w_bot     |-> z_w_bot([k \in 0..(BlockNz - 1) |-> dz]),
     REGION_MASK |-> Uniform2(1)]

\* The mask that selects the block of BlockSize x BlockSize cells whose first cell
\* is (j0, i0); the block wraps around in longitude
BlockMask(j0, i0) ==
    [j \in BlockRows |-> [i \in BlockCols |->
        /\ j \in j0..(j0 + BlockSize - 1)
        /\ ((i - i0) % BlockNLon) < BlockSize]]

InitLadv ==
    /\ \E dz \in EqualThickness, a \in UniformArea, u \in UniformFlux :
          inputdata = [grid |-> _process_grid(BlockGrid(dz, a)),
                       ds   |-> [UE |-> Uniform3(Num(u)), VN |-> Uniform3(Num(u))]]
    /\ req = <<>>
    /\ reg_budget = <<>>
    /\ ladv = <<>>
    /\ term = <<>>
    /\ called = ""
    /\ raised = ""
    /\ DivIdle /\ VDivIdle /\ KmaxIdle /\ GridIdle

ComputeLateralAdvection ==
    /\ called = ""
    /\ \E j0 \in 0..(BlockNLat - BlockSize), i0 \in BlockCols,
          km \in {None} \cup {Num(k) : k \in 0..(BlockNz - 1)} :
          /\ req' = [mask |-> BlockMask(j0, i0), kmax |-> km]
          /\ ladv' = _compute_lateral_advection(inputdata.ds, inputdata.grid,
                                                 BlockMask(j0, i0), km)
    /\ called' = "_compute_lateral_advection"
    /\ raised' = ""
    /\ UNCHANGED <<divVars, vdiv, kmaxVars, inputdata, reg_budget, term, gridVars>>

NextLadv == ComputeLateralAdvection

SpecLadv == InitLadv /\ [][NextLadv]_vars

\* C5: with uniform volumes, the same uniform value in both advective flux fields
\* and a square block as mask, the lateral-advection term is zero at every cell of
\* the block, and zero when summed over the area, for every position of the block.
C5_UniformFluxNoLateralAdvection ==
    called = "_compute_lateral_advection" =>
        /\ \A j \in BlockRows, i \in BlockCols :
              req.mask[j][i] => ladv[j][i] = Num(0)
        /\ SumArea(ladv) = Num(0)

\* C5's case: the term computed over all BlockNz layers for a block that wraps
\* around in longitude, with a flux that is not zero.
C5_Witness ==
    /\ called = "_compute_lateral_advection"
    /\ req.kmax = None
    /\ req.mask[0][0] /\ req.mask[0][BlockNLon - 1] /\ ~req.mask[0][1]
    /\ inputdata.ds.UE[0][0][0] # Num(0)
    /\ ladv[0][0] = Num(0)

\* ---------------------------------------------------------------------------
\* grid.py: get_grid and the grid-definition registry
\* ---------------------------------------------------------------------------

\* dict.update({k: v}): the entry is added, or replaces the one already there.
Update(d, k, v) == (k :> v) @@ d

\* numpy reshape of a flat file (a sequence) to (nlat, nlon), row-major.
Reshape(flat, dims) ==
    [j \in 0..(dims[1] - 1) |-> [i \in 0..(dims[2] - 1) |-> flat[j * dims[2] + i + 1]]]

\* kmt_flat.max()
FlatMax(flat) == CHOOSE v \in {flat[c] : c \in DOMAIN flat} :
                     \A c \in DOMAIN flat : flat[c] <= v

\* A plausible slip: the corner point is bounded by the cells to the north and
\* east instead of the cells to the south and west.
GenerateKMUForward(KMT) ==
    LET n == NRows(KMT)
        m == NCols(KMT)
    IN  [i \in Rows(KMT) |-> [j \in Cols(KMT) |->
            Min(Min(KMT[i][j], KMT[(i + 1) % n][j]),
                Min(KMT[i][(j + 1) % m], KMT[(i + 1) % n][(j + 1) % m]))]]

\* _generate_KMU: index -1 of a numpy array is its last row or column.
_generate_KMU(KMT) ==
    LET n == NRows(KMT)
        m == NCols(KMT)
    IN  [i \in Rows(KMT) |-> [j \in Cols(KMT) |->
            Min(Min(KMT[i][j], KMT[(i - 1) % n][j]),
                Min(KMT[i][(j - 1) % m], KMT[(i - 1) % n][(j - 1) % m]))]]

\* KMT_reidx = KMT - 1 with -1 replaced by 0, then z_w[KMT_reidx].
ColumnDepth(dz, K) ==
    [j \in Rows(K) |-> [i \in Cols(K) |->
        z_w(dz)[IF K[j][i] - 1 = -1 THEN 0 ELSE K[j][i] - 1]]]

\* grid_file_data.reshape((7, nlat, nlon)) of the flat horizontal grid file,
\* row-major: field v, row j, column i.
Reshape3(flat, nlat, nlon) ==
    [v \in 0..6 |-> [j \in 0..(nlat - 1) |-> [i \in 0..(nlon - 1) |->
        flat[v * nlat * nlon + j * nlon + i + 1]]]]

\* 0.5 * x, for the even x the widths of the model add up to.
Half(x) == x \div 2

\* A plausible slip, the line left as a comment in the code: row 0 extrapolated
\* from rows 0 and 1 instead of averaged with the last row.
DXTExtrapolated(HTN) ==
    LET nlat == NRows(HTN)
    IN  [j \in Rows(HTN) |-> [i \in Cols(HTN) |->
            IF j = 0 THEN Half(2 * HTN[0][i] - HTN[1][i] + HTN[0][i])
                     ELSE Half(HTN[j - 1][i] + HTN[j][i])]]

\* DXT[1:, :] = 0.5 * (HTN[:nlat-1, :] + HTN[1:, :]);
\* DXT[0, :] = 0.5 * (HTN[0, :] + HTN[nlat-1, :])
DXT(HTN) ==
    LET nlat == NRows(HTN)
    IN  [j \in Rows(HTN) |-> [i \in Cols(HTN) |->
            IF j = 0 THEN Half(HTN[0][i] + HTN[nlat - 1][i])
                     ELSE Half(HTN[j - 1][i] + HTN[j][i])]]

\* DYT[:, 1:] = 0.5 * (HTE[:, :nlon-1] + HTE[:, 1:]);
\* DYT[:, 0] = 0.5 * (HTE[:, nlon-1] + HTE[:, 0])
DYT(HTE) ==
    LET nlon == NCols(HTE)
    IN  [j \in Rows(HTE) |-> [i \in Cols(HTE) |->
            IF i = 0 THEN Half(HTE[j][nlon - 1] + HTE[j][0])
                     ELSE Half(HTE[j][i - 1] + HTE[j][i])]]

\* DXU[:, :nlon-1] = 0.5 * (HTN[:, :nlon-1] + HTN[:, 1:]);
\* DXU[:, nlon-1] = 0.5 * (HTN[:, nlon-1] + HTN[:, 0])
DXU(HTN) ==
    LET nlon == NCols(HTN)
    IN  [j \in Rows(HTN) |-> [i \in Cols(HTN) |->
            IF i = nlon - 1 THEN Half(HTN[j][nlon - 1] + HTN[j][0])
                            ELSE Half(HTN[j][i] + HTN[j][i + 1])]]

\* DYU[:nlat-1, :] = 0.5 * (HTE[:nlat-1, :] + HTE[1:, :]);
\* DYU[nlat-1, :] = 0.5 * (HTE[nlat-1, :] + HTE[0, :])
DYU(HTE) ==
    LET nlat == NRows(HTE)
    IN  [j \in Rows(HTE) |-> [i \in Cols(HTE) |->
            IF j = nlat - 1 THEN Half(HTE[nlat - 1][i] + HTE[0][i])
                            ELSE Half(HTE[j][i] + HTE[j + 1][i])]]

\* TAREA = DXT * DYT, UAREA = DXU * DYU
Mul2(a, b) == [j \in Rows(a) |-> [i \in Cols(a) |-> a[j][i] * b[j][i]]]

\* What a failed call gives: the exception, no dataset, the registry as it was.
GridError(defs, e) == [raised |-> e, dso |-> <<>>, grid_defs |-> defs]

\* get_grid(grid_name, scrip) run against the registry defs and the files.  The
\* result is the exception raised (if any), the dataset returned and the registry
\* as the call leaves it.  grid_attrs is the registry's own dict, so both updates
\* are made to the registry; dso.attrs is a copy of it (xarray copies the dict
\* it is given).  The latitudes and longitudes of the horizontal grid file, and
\* what is computed from them, are not part of this model.
get_grid(defs, files, grid_name, scrip) ==
    IF grid_name \notin DOMAIN defs
    THEN GridError(defs, "ValueError: Unknown grid")
    ELSE
    LET grid_attrs == defs[grid_name]
        nlat == grid_attrs["lateral_dims"][1]
        nlon == grid_attrs["lateral_dims"][2]
        grid_file_data == files[grid_attrs["horiz_grid_fname"]]
        dz == files[grid_attrs["vert_grid_file"]]
        kmt_flat == files[grid_attrs["topography_fname"]]
        region_mask_flat == files[grid_attrs["region_mask_fname"]]
    IN  IF Len(grid_file_data) # 7 * nlat * nlon
        THEN GridError(defs, "ValueError: cannot reshape array")
        ELSE IF Len(kmt_flat) # nlat * nlon
        THEN GridError(defs, "AssertionError: unexpected dims in topography file")
        ELSE IF FlatMax(kmt_flat) > Cardinality(DOMAIN dz)
        THEN GridError(defs, "AssertionError: Max KMT > length z_t")
        ELSE IF Len(region_mask_flat) # nlat * nlon
        THEN GridError(defs, "AssertionError: unexpected dims in region_mask file")
        ELSE
        LET HTN == Reshape3(grid_file_data, nlat, nlon)[2]
            HTE == Reshape3(grid_file_data, nlat, nlon)[3]
            KMT == Reshape(kmt_flat, grid_attrs["lateral_dims"])
            KMU == _generate_KMU(KMT)
            REGION_MASK == Reshape(region_mask_flat, grid_attrs["lateral_dims"])
            HT == ColumnDepth(dz, KMT)
            HU == ColumnDepth(dz, KMU)
            variables ==
                IF scrip
                THEN [grid_dims |-> <<nlon, nlat>>,
                      grid_imask |-> [c \in DOMAIN kmt_flat |->
                                         IF kmt_flat[c] > 0 THEN 1 ELSE 0]]
                ELSE [DXT |-> DXT(HTN), DYT |-> DYT(HTE),
                      DXU |-> DXU(HTN), DYU |-> DYU(HTE),
                      TAREA |-> Mul2(DXT(HTN), DYT(HTE)),
                      UAREA |-> Mul2(DXU(HTN), DYU(HTE)),
                      KMT |-> KMT, KMU |-> KMU, REGION_MASK |-> REGION_MASK,
                      HT |-> HT, HU |-> HU, dz |-> dz,
                      z_w |-> z_w(dz), z_w_bot |-> z_w_bot(dz)]
            with_conventions ==
                IF scrip THEN Update(grid_attrs, "conventions", <<"SCRIP">>)
                         ELSE grid_attrs
            with_title == Update(with_conventions, "title", <<grid_name, "grid">>)
        IN  [raised |-> "",
             dso |-> [variables |-> variables, attrs |-> with_title],
             grid_defs |-> [defs EXCEPT ![grid_name] = with_title]]

\* --- specification SpecGrid: calls of get_grid against one registry ---------

\* The grids of pop_grid_definitions.yaml, as loaded when the module is imported.
GridNames == {"POP_gx3v7", "POP_gx1v7"}

GridDefsYaml ==
    [g \in GridNames |->
        [k \in {"lateral_dims", "horiz_grid_fname", "vert_grid_file",
                "topography_fname", "region_mask_fname"} |->
            CASE k = "lateral_dims" -> <<NLat, NLon>>
              [] k = "horiz_grid_fname" -> <<g, "horiz_grid">>
              [] k = "vert_grid_file" -> <<g, "vert_grid">>
              [] k = "topography_fname" -> <<g, "topography">>
              [] k = "region_mask_fname" -> <<g, "region_mask">>]]

GridSize == NLat * NLon

\* The vertical grid file: MaxLayers layers, each thicker than the one above.
GridDz == [k \in 0..(MaxLayers - 1) |-> 100 * (k + 1)]

\* Topography files: MaxLayers everywhere but for one cell, which holds v.
SpikeKMT(c, v) == [x \in 1..GridSize |-> IF x = c THEN v ELSE MaxLayers]

\* A topography whose cells run through all the values 0..MaxLayers.
RampKMT == [x \in 1..GridSize |-> (x - 1) % (MaxLayers + 1)]

\* A topography file that is one cell short.
ShortKMT == [x \in 1..(GridSize - 1) |-> MaxLayers]

\* A topography of one layer everywhere, valid with every vertical grid.
ShallowKMT == [x \in 1..GridSize |-> 1]

\* Horizontal grid files: seven fields of GridSize values each, HTN the third and
\* HTE the fourth.  The widths are even, so every mean of two is exact.
\* The widths differ from cell to cell.
RampHoriz ==
    [x \in 1..(7 * GridSize) |->
        LET v == (x - 1) \div GridSize
            c == (x - 1) % GridSize
        IN  IF v = 2 THEN 2 * (c + 1)
            ELSE IF v = 3 THEN 2 * (c * c + 1)
            ELSE 0]

\* The widths are 2 everywhere but for HTN and HTE at cell c.
SpikeHoriz(c) ==
    [x \in 1..(7 * GridSize) |->
        LET v == (x - 1) \div GridSize
        IN  IF v \in {2, 3}
            THEN (IF (x - 1) % GridSize = c - 1 THEN 2 * (v + 1) ELSE 2)
            ELSE 0]

\* A horizontal grid file that is one value short.
ShortHoriz == [x \in 1..(7 * GridSize - 1) |-> 2]

\* The files of the two grids: those of POP_gx3v7 are the ones given, those of
\* POP_gx1v7 are fixed.
GridFilesOf(kmt, dz, horiz) ==
    [f \in GridNames \X {"horiz_grid", "vert_grid", "topography", "region_mask"} |->
        CASE f[2] = "horiz_grid" ->
                 IF f[1] = "POP_gx3v7" THEN horiz ELSE RampHoriz
          [] f[2] = "vert_grid" ->
                 IF f[1] = "POP_gx3v7" THEN dz ELSE GridDz
          [] f[2] = "topography" ->
                 IF f[1] = "POP_gx3v7" THEN kmt ELSE SpikeKMT(1, MaxLayers)
          [] f[2] = "region_mask" -> [x \in 1..GridSize |-> 1 + (x % 2)]]

GridFiles(kmt) == GridFilesOf(kmt, GridDz, RampHoriz)

InitGrid ==
    /\ grid_defs = GridDefsYaml
    /\ \/ \E c \in 1..GridSize, v \in 0..(MaxLayers + 1) :
              INPUTDATA = GridFiles(SpikeKMT(c, v))
       \/ INPUTDATA = GridFiles(RampKMT)
       \/ INPUTDATA = GridFiles(ShortKMT)
       \/ \E dz \in DzProfiles : INPUTDATA = GridFilesOf(ShallowKMT, dz, RampHoriz)
       \/ \E c \in 1..GridSize :
              INPUTDATA = GridFilesOf(ShallowKMT, GridDz, SpikeHoriz(c))
       \/ INPUTDATA = GridFilesOf(ShallowKMT, GridDz, ShortHoriz)
    /\ grid_args = <<>>
    /\ dso = <<>>
    /\ called = ""
    /\ raised = ""
    /\ DivIdle /\ VDivIdle /\ KmaxIdle /\ BudgetIdle

\* A call of get_grid; when it raises, the caller keeps the dataset it had.
GetGrid ==
    /\ \E grid_name \in GridNames \cup {"POP_gx0v0"}, scrip \in BOOLEAN :
          LET r == get_grid(grid_defs, INPUTDATA, grid_name, scrip)
          IN  /\ grid_args' = [grid_name |-> grid_name, scrip |-> scrip]
              /\ grid_defs' = r.grid_defs
              /\ raised' = r.raised
              /\ dso' = IF r.raised = "" THEN r.dso ELSE dso
    /\ called' = "get_grid"
    /\ UNCHANGED <<divVars, vdiv, kmaxVars, budgetVars, INPUTDATA>>

\* The caller changes an attribute of the dataset it holds.
SetAttrs ==
    /\ dso # <<>>
    /\ dso' = [dso EXCEPT !.attrs = Update(@, "title", <<"edited">>)]
    /\ called' = "attrs"
    /\ raised' = ""
    /\ UNCHANGED <<divVars, vdiv, kmaxVars, budgetVars, grid_defs, INPUTDATA, grid_args>>

NextGrid == GetGrid \/ SetAttrs

SpecGrid == InitGrid /\ [][NextGrid]_vars

\* C9: the dataset a call of get_grid returns, variables and attributes, is the
\* one the same call returns against the registry as it was loaded: no earlier
\* call and no change to an earlier result shows in it.
C9_ResultDependsOnlyOnArguments ==
    (called = "get_grid" /\ raised = "") =>
        dso = get_grid(GridDefsYaml, INPUTDATA,
                       grid_args.grid_name, grid_args.scrip).dso

\* C10: at every cell KMU is the smallest of KMT at (i, j), (i-1, j), (i, j-1)
\* and (i-1, j-1), index -1 being the last row or column, so KMU is less than or
\* equal to each of the four, KMT[i, j] included.
C10_KMUIsMinOfFour ==
    (dso # <<>> /\ "KMU" \in DOMAIN dso.variables) =>
        LET KMT == dso.variables.KMT
            KMU == dso.variables.KMU
        IN  \A i \in 0..(NLat - 1), j \in 0..(NLon - 1) :
                LET four == {KMT[i][j],
                             KMT[(i + NLat - 1) % NLat][j],
                             KMT[i][(j + NLon - 1) % NLon],
                             KMT[(i + NLat - 1) % NLat][(j + NLon - 1) % NLon]}
                IN  /\ KMU[i][j] \in four
                    /\ \A v \in four : KMU[i][j] <= v
                    /\ KMU[i][j] <= KMT[i][j]

\* C10's case: the corner point at (0, 0) takes its value from the cell in the
\* last row and last column, which is shallower than the cell at (0, 0).
C10_Witness ==
    /\ dso # <<>> /\ "KMU" \in DOMAIN dso.variables
    /\ dso.variables.KMT[0][0] = MaxLayers
    /\ dso.variables.KMT[NLat - 1][0] = MaxLayers
    /\ dso.variables.KMT[0][NLon - 1] = MaxLayers
    /\ dso.variables.KMT[NLat - 1][NLon - 1] = 1
    /\ dso.variables.KMU[0][0] = 1

\* The vertical grid of the dataset the caller holds, and the thicknesses in the
\* vertical grid file it was built from.
HeldVerticalGrid == dso # <<>> /\ "z_w_bot" \in DOMAIN dso.variables

HeldDzFile == INPUTDATA[dso.attrs["vert_grid_file"]]

\* C11: in every grid get_grid returns, the layer bottom depth increases strictly
\* with the layer index, the top depth is 0 at layer 0 and the bottom depth of
\* layer k-1 at every layer k > 0, and the bottom depth of layer k is the sum of
\* the thicknesses of layers 0..k.
C11_VerticalGridEdges ==
    HeldVerticalGrid =>
        LET top == dso.variables.z_w
            bot == dso.variables.z_w_bot
            dz == HeldDzFile
        IN  /\ DOMAIN top = DOMAIN dz /\ DOMAIN bot = DOMAIN dz
            /\ top[0] = 0
            /\ bot[0] = dz[0]
            /\ \A k \in DOMAIN dz \ {0} :
                  /\ bot[k] > bot[k - 1]
                  /\ top[k] = bot[k - 1]
                  /\ bot[k] = bot[k - 1] + dz[k]

\* C11's case: a grid returned for a profile of MaxLayers layers of unequal
\* thickness.
C11_Witness ==
    /\ HeldVerticalGrid
    /\ Cardinality(DOMAIN HeldDzFile) = MaxLayers
    /\ HeldDzFile[0] = 1 /\ HeldDzFile[1] = 2
    /\ dso.variables.z_w_bot[1] = 3
    /\ dso.variables.z_w[1] = 1

\* The horizontal widths of the dataset the caller holds, and the corner-point
\* widths in the horizontal grid file it was built from.
HeldWidths == dso # <<>> /\ "DXT" \in DOMAIN dso.variables

HeldHTN == Reshape3(INPUTDATA[dso.attrs["horiz_grid_fname"]], NLat, NLon)[2]

HeldHTE == Reshape3(INPUTDATA[dso.attrs["horiz_grid_fname"]], NLat, NLon)[3]

\* C12: in every grid get_grid returns, DXT at row j is the mean of HTN at rows
\* j-1 and j (row 0 with row nlat-1), DYT at column i is the mean of HTE at
\* columns i-1 and i (column 0 with column nlon-1), DXU at column i is the mean
\* of HTN at columns i and i+1 (column nlon-1 with column 0), and DYU at row j is
\* the mean of HTE at rows j and j+1 (row nlat-1 with row 0).
C12_WidthWraparound ==
    HeldWidths =>
        \A j \in 0..(NLat - 1), i \in 0..(NLon - 1) :
            LET south == (j + NLat - 1) % NLat
                north == (j + 1) % NLat
                west == (i + NLon - 1) % NLon
                east == (i + 1) % NLon
            IN  /\ 2 * dso.variables.DXT[j][i] = HeldHTN[south][i] + HeldHTN[j][i]
                /\ 2 * dso.variables.DYT[j][i] = HeldHTE[j][west] + HeldHTE[j][i]
                /\ 2 * dso.variables.DXU[j][i] = HeldHTN[j][i] + HeldHTN[j][east]
                /\ 2 * dso.variables.DYU[j][i] = HeldHTE[j][i] + HeldHTE[north][i]

\* C12's case: a grid whose widths differ between the first, second and last row
\* and column, so that each of the four wraparound rules shows at the edge.
C12_Witness ==
    /\ HeldWidths
    /\ HeldHTN[0][0] # HeldHTN[NLat - 1][0] /\ HeldHTN[1][0] # HeldHTN[NLat - 1][0]
    /\ HeldHTE[0][0] # HeldHTE[0][NLon - 1] /\ HeldHTE[0][1] # HeldHTE[0][NLon - 1]
    /\ 2 * dso.variables.DXT[0][0] = HeldHTN[0][0] + HeldHTN[NLat - 1][0]
    /\ 2 * dso.variables.DYT[0][0] = HeldHTE[0][0] + HeldHTE[0][NLon - 1]
    /\ 2 * dso.variables.DXU[0][NLon - 1] = HeldHTN[0][NLon - 1] + HeldHTN[0][0]
    /\ 2 * dso.variables.DYU[NLat - 1][0] = HeldHTE[NLat - 1][0] + HeldHTE[0][0]

-----------------------------------------------------------------------------
(* SpecTerm: single budget terms computed from bounded files *)

MonthsPerYear == 12

\* The time axis of two years of monthly files starting with year y0, each
\* stamped at the instant that ends its month.
TwoYearsOfMonths(y0) ==
    [n \in 1..(2 * MonthsPerYear) |->
        MonthEnd(y0 + (n - 1) \div MonthsPerYear, ((n - 1) % MonthsPerYear) + 1)]

\* Magnitudes of the source/sink term.
Magnitudes == {-2, 3}

\* The 3-D field of n layers that is v at every cell.
Constant3(v, n) == [k \in 0..(n - 1) |-> [j \in DivRows |-> [i \in DivCols |-> v]]]

\* The masks of the term functions: mask == mask_int for the caller's mask and
\* for both regions of the grid's REGION_MASK.
TermMasks(grid) ==
    {MaskEq(UserMask, Num(2)), MaskEq(grid.mask, Num(1)), MaskEq(grid.mask, Num(2))}

\* kmax: unset, or the index of a layer of the grid.
TermKmax(grid) == {None} \cup {Num(k) : k \in DOMAIN grid.z}

InitTerm ==
    /\ \E p \in BudgetProfiles, M \in Magnitudes, y0 \in {1, 2} :
          inputdata =
              [grid |-> _process_grid(BudgetGrid(p)),
               ds   |-> [SMS  |-> [n \in 1..(2 * MonthsPerYear) |->
                                      Constant3(Num(M), Cardinality(DOMAIN p))],
                         time |-> TwoYearsOfMonths(y0)]]
    /\ req = <<>>
    /\ reg_budget = <<>>
    /\ ladv = <<>>
    /\ term = <<>>
    /\ called = ""
    /\ raised = ""
    /\ DivIdle /\ VDivIdle /\ KmaxIdle /\ GridIdle

\* _compute_SMS: _load_tracer_terms opens the files through _process_coords.
ComputeSMS ==
    /\ called = ""
    /\ \E m \in TermMasks(inputdata.grid), km \in TermKmax(inputdata.grid) :
          /\ req' = [mask |-> m, kmax |-> km]
          /\ term' = _compute_SMS([SMS  |-> inputdata.ds.SMS,
                                   time |-> _process_coords(inputdata.ds.time)],
                                  inputdata.grid, m, km)
    /\ called' = "_compute_SMS"
    /\ raised' = ""
    /\ UNCHANGED <<divVars, vdiv, kmaxVars, inputdata, reg_budget, ladv, gridVars>>

NextTerm == ComputeSMS

SpecTerm == InitTerm /\ [][NextTerm]_vars

\* The deepest layer a term computed with kmax retains.
LastRetained == IF req.kmax = None THEN Cardinality(DOMAIN inputdata.grid.z) - 1
                ELSE req.kmax[1]

\* The months of the files that end within calendar year y.
MonthsEndingIn(y) ==
    {n \in DOMAIN inputdata.ds.time :
        /\ y * SecondsPerYear < inputdata.ds.time[n]
        /\ inputdata.ds.time[n] <= (y + 1) * SecondsPerYear}

\* C13: from 24 monthly values of constant magnitude M stamped at the ends of the
\* months of two calendar years, _compute_SMS gives exactly 2 annual values; each
\* year groups the 12 months that end in it, and at every cell of the mask each
\* annual value is M times the cell volume, summed over the retained layers and
\* multiplied by the nmol/s to mol/yr factor.
C13_TwoAnnualValues ==
    called = "_compute_SMS" =>
        LET M == inputdata.ds.SMS[1][0][0][0][1]
            grid == inputdata.grid
        IN  /\ Cardinality(DOMAIN term) = 2
            /\ \A y \in DOMAIN term :
                  /\ Cardinality(MonthsEndingIn(y)) = MonthsPerYear
                  /\ \A j \in DivRows, i \in DivCols :
                        req.mask[j][i] =>
                            term[y][j][i] =
                                Num(NMOLS_TO_MOLYR * M * grid.area[j][i]
                                        * grid.z[LastRetained])

\* C13's case: the term truncated above the deepest layer of a grid, with a value
\* other than zero at a cell of the mask in each of the two years.
C13_Witness ==
    /\ called = "_compute_SMS"
    /\ req.kmax # None
    /\ req.kmax[1] + 1 < Cardinality(DOMAIN inputdata.grid.z)
    /\ req.mask[0][0]
    /\ \A y \in DOMAIN term : term[y][0][0] # Num(0)
    /\ \E y \in DOMAIN term : y + 1 \in DOMAIN term

-----------------------------------------------------------------------------
(* SpecVadv: _compute_vertical_advection applied to bounded files *)

\* The vertical flux fields read for WT: two fields of small numbers that differ
\* from cell to cell and layer to layer.
VadvFields(n) == {RawField3(3, n), RawField3(4, n)}

InitVadv ==
    /\ \E p \in BudgetProfiles :
          \E WT \in VadvFields(Cardinality(DOMAIN p)) :
              inputdata = [grid |-> _process_grid(BudgetGrid(p)),
                           ds   |-> [WT |-> WT]]
    /\ req = <<>>
    /\ reg_budget = <<>>
    /\ ladv = <<>>
    /\ term = <<>>
    /\ called = ""
    /\ raised = ""
    /\ DivIdle /\ VDivIdle /\ KmaxIdle /\ GridIdle

ComputeVerticalAdvection ==
    /\ called = ""
    /\ \E m \in TermMasks(inputdata.grid), km \in TermKmax(inputdata.grid) :
          /\ req' = [mask |-> m, kmax |-> km]
          /\ term' = _compute_vertical_advection(inputdata.ds, inputdata.grid, m, km)
    /\ called' = "_compute_vertical_advection"
    /\ raised' = ""
    /\ UNCHANGED <<divVars, vdiv, kmaxVars, inputdata, reg_budget, ladv, gridVars>>

NextVadv == ComputeVerticalAdvection

SpecVadv == InitVadv /\ [][NextVadv]_vars

\* WT times the cell volume at layer k of cell (j, i), zero below the deepest
\* layer of the grid.
FluxAt(k, j, i) ==
    IF k \in DOMAIN inputdata.ds.WT
    THEN inputdata.ds.WT[k][j][i][1] * inputdata.grid.vol[k][j][i]
    ELSE 0

\* The sum over layers 0..last of the difference between the flux at the layer
\* below and the flux at the layer itself.
DifferenceSum(last, j, i) ==
    SumSkipNa([k \in 0..last |-> Num(FluxAt(k + 1, j, i) - FluxAt(k, j, i))], 0..last)

\* C14: at each cell of the mask the vertical-advection term is the sum of
\* WT[k+1] - WT[k] (WT below the deepest layer being zero) over the layers
\* 0..kmax when kmax is set, and over every layer of the grid when it is not.
C14_SumsLayersToKmax ==
    called = "_compute_vertical_advection" =>
        \A j \in DivRows, i \in DivCols :
            req.mask[j][i] =>
                term[j][i] = Num(NMOLS_TO_MOLYR * DifferenceSum(LastRetained, j, i))

-----------------------------------------------------------------------------
(* SpecKmax: requests shallower than the deepest layer bottom *)

\* C15: _compute_kmax returns None only when the requested depth is at or beyond
\* the deepest layer bottom; every shallower request, one shallower than the
\* bottom of the first layer included, gives the index of a layer of the grid.
C15_NoneOnlyAtOrBeyondBottom ==
    called = "_compute_kmax" =>
        IF budget_depth >= z[Deepest(z)]
        THEN kmax = None
        ELSE kmax \in {Num(k) : k \in DOMAIN z}

====
